---- MODULE Spec2Model ----
(***************************************************************************)
(* Financial-Dashboard-V3 front end: the data hooks (useDashboardData,     *)
(* useNews, the polling useDashboardData variant) and the screener         *)
(* (QueryBuilder), each as a state machine over React state, effect        *)
(* closures, interval timers and requests awaiting their response.         *)
(***************************************************************************)
EXTENDS Integers, Sequences, FiniteSets, TLC

(***************************************************************************)
(* Bounds of the model.                                                    *)
(***************************************************************************)
\* effect runs (mount + key-input changes) of one hook instance
MaxEffects == 3
\* requests one hook instance issues
MaxReq == 3
\* conditions in the screener's list
MaxConds == 2
\* requests one screener instance issues
MaxQReq == 3
\* messages in the chat widget's list
MaxMsgs == 5
\* the last instant the chat widget's clock reaches
MaxNow == 4
\* characters in a ticker string handed to cleanTicker
MaxTickerLen == 4
\* times the result of cleanTicker is handed to cleanTicker again
MaxCleans == 2
\* stocks, news items and signals in a dashboard bundle
MaxStocks == 2
MaxNews == 6
MaxSignals == 1
\* zeros behind the leading digits of a number handed to a formatter
MaxExp == 12
\* requests one DomainPanel instance issues
MaxDomainReq == 3
\* requests one detail panel instance issues
MaxDetailReq == 3
\* Dashboard: the requests left outstanding and the late setter calls with
\* which App still returns to the dashboard
MaxLate == 1

(***************************************************************************)
(* Program constants.                                                      *)
(***************************************************************************)
\* useDashboardData(tickers, refreshInterval = 60000)
DefaultRefreshInterval == 60000
\* setInterval(fetchNews, 300000)
NewsRefreshInterval == 300000
\* setInterval(fetchData, 60000) in the polling variant
PollRefreshInterval == 60000
\* useNews(limit = 10)
DefaultNewsLimit == 10
\* news.slice(0, 5)
NewsShown == 5

VARIABLES
    hook,      \* which hook this instance is: "dashboard", "news", "polling"
    phase,     \* "rendered" (state initialised, effect not yet run), "mounted", "unmounted"
    inputs,    \* the hook's arguments at the latest render
    st,        \* React state of the hook: [data, loading, error]
    effect,    \* number of the effect run whose closure is current (0: none yet)
    isMounted, \* effect runs whose closure variable isMounted is true
    timers,    \* every interval ever set, by the effect run that set it:
               \* <<[eff, delay, active, clears]>>
    reqs,      \* every request ever issued, by the effect run whose closure
               \* issued it (its arguments are that run's): <<[eff, status]>>
    settled,   \* the two requests that settled last, oldest first
    lateSets,  \* state-setter calls made after the component unmounted
    queryType, \* screener: 'equity' | 'fund'
    fields,    \* screener: query type whose field list is loaded ("none": {})
    values,    \* screener: query type whose value list is loaded ("none": {})
    qLoading,  \* screener: loading
    qError,    \* screener: error
    results,   \* screener: results
    query,     \* screener: [operator, operands]
    qPhase,    \* screener: "rendered", "mounted"
    qShown,    \* screener: loading and fields as React rendered them last
    qPending,  \* screener: requests awaiting their response: {[id, kind, type, body]}
    qIssued,   \* screener: number of requests issued so far
    chat,      \* AI chat widget: React state [messages, currentTicker, inputMessage,
               \* isLoading, isMinimized] with the /ask requests awaiting
               \* their response (asks) and the number issued (issued)
    now,       \* AI chat widget: the clock Date.now() reads
    ticker,    \* cleanTicker: the string a caller holds
    cleaned,   \* cleanTicker: the results of normalising it again and again
    dashResult, \* Dashboard: what useDashboardData returned, [data, loading, error]
    dashTree,  \* Dashboard: what the component rendered from it
    formatter, \* magnitude formatting: the function called
    amount,    \* magnitude formatting: its argument
    formatted, \* magnitude formatting: what it returned (<< >>: not called yet)
    lazyImports, \* Dashboard: the state of each React.lazy import
               \* ("unrequested", "pending" or "resolved")
    screen,    \* Dashboard: the return React committed last (view) and whether
               \* a render is scheduled (due)
    orphans,   \* Dashboard: the requests awaiting their response that were
               \* issued by Dashboards unmounted before the one on screen
    detail,    \* OwnershipPanel, FastInfoPanel or QuotePanel: which of the three
               \* (panel), its React state [ticker, data, loading, error], the
               \* requests awaiting their response and the number issued
    domain     \* DomainPanel: its type prop, its React state [domains, loading,
               \* error, searchQuery, filteredDomains], the requests awaiting
               \* their response (pending) and the number issued (issued)

hookVars == <<hook, phase, inputs, st, effect, isMounted, timers, reqs, settled, lateSets>>
qbVars == <<queryType, fields, values, qLoading, qError, results, query, qPhase, qShown,
           qPending, qIssued>>
chatVars == <<chat, now>>
tickerVars == <<ticker, cleaned>>
\* what a hook instance leaves alone, what the screener leaves alone, ...
viewVars == <<dashResult, dashTree>>
formatVars == <<formatter, amount, formatted>>
besideHook == <<qbVars, chatVars, tickerVars, viewVars, formatVars, domain, detail, lazyImports, screen, orphans>>
besideQB == <<hookVars, chatVars, tickerVars, viewVars, formatVars, domain, detail, lazyImports, screen, orphans>>
besideChat == <<hookVars, qbVars, tickerVars, viewVars, formatVars, domain, detail, lazyImports, screen, orphans>>
besideTicker == <<hookVars, qbVars, chatVars, viewVars, formatVars, domain, detail, lazyImports, screen, orphans>>
besideView == <<hookVars, qbVars, chatVars, tickerVars, formatVars, domain, detail, lazyImports, screen, orphans>>
besideFormat == <<hookVars, qbVars, chatVars, tickerVars, viewVars, domain, detail, lazyImports, screen, orphans>>
besideDomain == <<hookVars, qbVars, chatVars, tickerVars, viewVars, formatVars, detail, lazyImports, screen, orphans>>
besideDetail == <<hookVars, qbVars, chatVars, tickerVars, viewVars, formatVars, domain, lazyImports, screen, orphans>>
vars == <<hookVars, qbVars, chatVars, tickerVars, viewVars, formatVars, domain, detail, lazyImports, screen, orphans>>

\* JavaScript null
Null == [null |-> TRUE]
\* a string held where null is possible
Str(s) == [message |-> s]

(***************************************************************************)
(* React state: a handler is the sequence of setter calls it makes; calls  *)
(* on a mounted component are applied in order, calls on an unmounted one  *)
(* change nothing and are counted.                                         *)
(***************************************************************************)
RECURSIVE ApplyCalls(_, _)
ApplyCalls(s, calls) ==
    IF calls = <<>> THEN s
    ELSE ApplyCalls([s EXCEPT ![Head(calls)[1]] = Head(calls)[2]], Tail(calls))

SetState(calls) ==
    IF phase = "unmounted"
    THEN /\ st' = st
         /\ lateSets' = lateSets + Len(calls)
    ELSE /\ st' = ApplyCalls(st, calls)
         /\ lateSets' = lateSets

(***************************************************************************)
(* Inputs and responses of the hooks.                                      *)
(***************************************************************************)
TickerLists == {<<>>, <<"TCS.NS">>, <<"TCS.NS", "INFY.NS">>}
RefreshIntervals == {DefaultRefreshInterval, 30000}
NewsLimits == {DefaultNewsLimit, 5}

Hooks == {"dashboard", "news", "polling"}

InputsOf(h) ==
    CASE h = "dashboard" -> [tickers : TickerLists, refreshInterval : RefreshIntervals]
      [] h = "news"      -> [limit : NewsLimits]
      [] h = "polling"   -> [tickers : TickerLists]

\* what a rejected promise carries: an Error with a message, or another value
Errors == {[isError |-> TRUE, message |-> "Network Error"],
           [isError |-> FALSE, message |-> ""]}

\* err instanceof Error ? err.message : fallback
ErrorMessage(err, fallback) == IF err.isError THEN err.message ELSE fallback

\* the body the backend returns for request r: a DashboardBundle, or a news
\* list either bare or wrapped as {news: [...]}
Payload(r) == [req |-> r]
ResponsesOf(h, r) ==
    IF h = "news" THEN {Payload(r), [news |-> Payload(r)]} ELSE {Payload(r)}

\* useState initial values
InitialState(h) ==
    [data    |-> IF h = "news" THEN [req |-> 0] ELSE Null,
     loading |-> TRUE,
     error   |-> Null]

(***************************************************************************)
(* hooks/useDashboardData.ts                                               *)
(***************************************************************************)
\* fetchData up to its await
dash_fetchStart == << <<"loading", TRUE>> >>

\* a plausible slip: the response handled without the isMounted checks
dash_fetchSuccess_unguarded(e, dashboardData) ==
    << <<"data", dashboardData>>, <<"error", Null>>, <<"loading", FALSE>> >>

\* a plausible change: a response is stored only when no newer request exists
dash_fetchSuccess_newestOnly(e, dashboardData) ==
    (IF e \in isMounted /\ dashboardData.req = Len(reqs)
     THEN << <<"data", dashboardData>>, <<"error", Null>> >>
     ELSE << >>)
    \o (IF e \in isMounted THEN << <<"loading", FALSE>> >> ELSE << >>)

\* fetchData after the await resolved, in the closure of effect run e
dash_fetchSuccess(e, dashboardData) ==
    (IF e \in isMounted
     THEN << <<"data", dashboardData>>, <<"error", Null>> >>
     ELSE << >>)
    \o (IF e \in isMounted THEN << <<"loading", FALSE>> >> ELSE << >>)

\* a plausible slip: the failure also wipes the last good payload
dash_fetchFailure_wipes(e, err) ==
    IF e \in isMounted
    THEN << <<"data", Null>>,
            <<"error", Str(ErrorMessage(err, "Failed to fetch data"))>>,
            <<"loading", FALSE>> >>
    ELSE << >>

\* fetchData after the await rejected, in the closure of effect run e
dash_fetchFailure(e, err) ==
    (IF e \in isMounted
     THEN << <<"error", Str(ErrorMessage(err, "Failed to fetch data"))>> >>
     ELSE << >>)
    \o (IF e \in isMounted THEN << <<"loading", FALSE>> >> ELSE << >>)

\* a plausible slip: the effect without the tickers.length > 0 test
dash_effect_noEmptyTest(in) ==
    [calls |-> dash_fetchStart, fetch |-> TRUE,
     delay |-> in.refreshInterval, cleanup |-> TRUE]

\* the effect body: setter calls, whether fetchData() is called and an
\* interval set, the interval's delay, whether a cleanup is returned
dash_effect(in) ==
    IF Len(in.tickers) > 0
    THEN [calls |-> dash_fetchStart, fetch |-> TRUE,
          delay |-> in.refreshInterval, cleanup |-> TRUE]
    ELSE [calls |-> << <<"data", Null>>, <<"loading", FALSE>>, <<"error", Null>> >>,
          fetch |-> FALSE, delay |-> 0, cleanup |-> FALSE]

(***************************************************************************)
(* hooks/useNews.ts                                                        *)
(***************************************************************************)
news_fetchStart == << <<"loading", TRUE>>, <<"error", Null>> >>

\* setNews(data.news || data); finally setLoading(false)
news_fetchSuccess(e, data) ==
    << <<"data", IF "news" \in DOMAIN data THEN data.news ELSE data>>,
       <<"loading", FALSE>> >>

news_fetchFailure(e, err) ==
    << <<"error", Str(ErrorMessage(err, "Failed to fetch news"))>>,
       <<"loading", FALSE>> >>

news_effect(in) ==
    [calls |-> news_fetchStart, fetch |-> TRUE,
     delay |-> NewsRefreshInterval, cleanup |-> TRUE]

(***************************************************************************)
(* The polling useDashboardData(tickers) of hooks/useApi                   *)
(***************************************************************************)
poll_fetchStart == << <<"loading", TRUE>> >>

poll_fetchSuccess(e, dashboardData) ==
    << <<"data", dashboardData>>, <<"error", Null>>, <<"loading", FALSE>> >>

poll_fetchFailure(e, err) ==
    << <<"error", Str(ErrorMessage(err, "Failed to fetch data"))>>,
       <<"loading", FALSE>> >>

poll_effect(in) ==
    [calls |-> poll_fetchStart, fetch |-> TRUE,
     delay |-> PollRefreshInterval, cleanup |-> TRUE]

(***************************************************************************)
(* The hook instance: React runs the effect after the first render and     *)
(* after every render whose dependencies changed (the previous run's       *)
(* cleanup first), and the cleanup of the current run at unmount; the      *)
(* timer and the backend drive the rest.                                   *)
(***************************************************************************)
EffectOf(h, in) ==
    CASE h = "dashboard" -> dash_effect(in)
      [] h = "news"      -> news_effect(in)
      [] h = "polling"   -> poll_effect(in)

FetchStartOf(h) ==
    CASE h = "dashboard" -> dash_fetchStart
      [] h = "news"      -> news_fetchStart
      [] h = "polling"   -> poll_fetchStart

FetchSuccessOf(h, e, resp) ==
    CASE h = "dashboard" -> dash_fetchSuccess(e, resp)
      [] h = "news"      -> news_fetchSuccess(e, resp)
      [] h = "polling"   -> poll_fetchSuccess(e, resp)

FetchFailureOf(h, e, err) ==
    CASE h = "dashboard" -> dash_fetchFailure(e, err)
      [] h = "news"      -> news_fetchFailure(e, err)
      [] h = "polling"   -> poll_fetchFailure(e, err)

\* the closure variable isMounted exists in hooks/useDashboardData.ts only
HasMountedFlag(h) == h = "dashboard"

\* a plausible slip: the interval is counted as cleared and keeps running
clearInterval_keepsRunning(ts, t) ==
    [ts EXCEPT ![t] = [@ EXCEPT !.clears = @ + 1]]

\* clearInterval(t)
clearInterval(ts, t) ==
    [ts EXCEPT ![t] = [@ EXCEPT !.active = FALSE, !.clears = @ + 1]]

\* the intervals the cleanup of effect run e clears: the one it set
RECURSIVE ClearAll(_, _)
ClearAll(ts, ids) ==
    IF ids = {} THEN ts
    ELSE LET t == CHOOSE x \in ids : TRUE
         IN ClearAll(clearInterval(ts, t), ids \ {t})

\* a plausible slip: a cleanup that forgets clearInterval
Cleanup_leaks(ts) == ts

\* the cleanup the current effect run returned (none: nothing happens)
Cleanup(ts) ==
    IF effect > 0 /\ EffectOf(hook, inputs).cleanup
    THEN ClearAll(ts, {t \in DOMAIN ts : ts[t].eff = effect})
    ELSE ts

\* a plausible slip: a cleanup that leaves isMounted true
FlagsAfterCleanup_keeps == isMounted

FlagsAfterCleanup ==
    IF effect > 0 /\ EffectOf(hook, inputs).cleanup
    THEN isMounted \ {effect}
    ELSE isMounted

\* effect run e with arguments in, after the previous cleanup left timers ts
\* and flags fl
RunEffect(e, in, ts, fl) ==
    LET eff == EffectOf(hook, in) IN
    /\ eff.fetch => Len(reqs) < MaxReq
    /\ effect' = e
    /\ inputs' = in
    /\ isMounted' = IF HasMountedFlag(hook) THEN fl \cup {e} ELSE fl
    /\ SetState(eff.calls)
    /\ reqs' = IF eff.fetch
               THEN Append(reqs, [eff |-> e, status |-> "pending"])
               ELSE reqs
    /\ timers' = IF eff.fetch
                 THEN Append(ts, [eff |-> e, delay |-> eff.delay,
                                  active |-> TRUE, clears |-> 0])
                 ELSE ts
    /\ UNCHANGED settled

\* request r settles: remembered as the latest, with the one before it
Settle(r) == Append(IF settled = << >> THEN settled ELSE <<settled[Len(settled)]>>, r)

HookInit ==
    /\ hook \in Hooks
    /\ phase = "rendered"
    /\ inputs \in InputsOf(hook)
    /\ st = InitialState(hook)
    /\ effect = 0
    /\ isMounted = {}
    /\ timers = << >>
    /\ reqs = << >>
    /\ settled = << >>
    /\ lateSets = 0

\* the effect's first run, after the first render
MountStep ==
    /\ phase = "rendered"
    /\ phase' = "mounted"
    /\ RunEffect(1, inputs, timers, isMounted)
    /\ UNCHANGED hook

Mount == MountStep /\ UNCHANGED besideHook

\* a render with new arguments: an array argument is a new dependency
\* whenever it is a new array, a number only when its value differs
InputsChange ==
    /\ phase = "mounted"
    /\ effect < MaxEffects
    /\ \E in \in InputsOf(hook) :
         /\ hook = "news" => in # inputs
         /\ RunEffect(effect + 1, in, Cleanup(timers), FlagsAfterCleanup)
    /\ UNCHANGED <<hook, phase, besideHook>>

\* an active interval fires: fetchData / fetchNews of its closure starts
TimerFireStep ==
    /\ Len(reqs) < MaxReq
    /\ \E t \in DOMAIN timers :
         /\ timers[t].active
         /\ SetState(FetchStartOf(hook))
         /\ reqs' = Append(reqs, [eff |-> timers[t].eff, status |-> "pending"])
    /\ UNCHANGED <<hook, phase, inputs, effect, isMounted, timers, settled>>

TimerFire == TimerFireStep /\ UNCHANGED besideHook

\* the backend answers request r
ResolveStep ==
    /\ \E r \in DOMAIN reqs :
         /\ reqs[r].status = "pending"
         /\ \E resp \in ResponsesOf(hook, r) :
              SetState(FetchSuccessOf(hook, reqs[r].eff, resp))
         /\ reqs' = [reqs EXCEPT ![r].status = "ok"]
         /\ settled' = Settle(r)
    /\ UNCHANGED <<hook, phase, inputs, effect, isMounted, timers>>

Resolve == ResolveStep /\ UNCHANGED besideHook

\* request r fails
RejectStep ==
    /\ \E r \in DOMAIN reqs :
         /\ reqs[r].status = "pending"
         /\ \E err \in Errors :
              SetState(FetchFailureOf(hook, reqs[r].eff, err))
         /\ reqs' = [reqs EXCEPT ![r].status = "failed"]
         /\ settled' = Settle(r)
    /\ UNCHANGED <<hook, phase, inputs, effect, isMounted, timers>>

Reject == RejectStep /\ UNCHANGED besideHook

\* the consuming component unmounts: the current cleanup runs
UnmountStep ==
    /\ phase = "mounted"
    /\ phase' = "unmounted"
    /\ timers' = Cleanup(timers)
    /\ isMounted' = FlagsAfterCleanup
    /\ UNCHANGED <<hook, inputs, st, effect, reqs, settled, lateSets>>

Unmount == UnmountStep /\ UNCHANGED besideHook

(***************************************************************************)
(* components/QueryBuilder.tsx: the screener.                              *)
(***************************************************************************)
QueryTypes == {"equity", "fund"}

\* operand values as JSON would write them
Num(n) == [t |-> "number", s |-> n]
Text(x) == [t |-> "string", s |-> x]
Undefined == [t |-> "undefined"]
Arr(x, y) == [t |-> "array", items |-> <<x, y>>]

\* the comparison picked in a condition's first select (its options are
\* GT, LT, GTE, LTE, EQ, BTWN)
Comparisons == {"BTWN"}
\* field names the backend lists for a query type ("none": not loaded, {})
FieldList(t) ==
    CASE t = "equity" -> {"marketCap"}
      [] t = "fund"   -> {"marketCap"}
      [] OTHER        -> {}
\* texts typed into a value input
Typed == {"5"}
\* rows the backend returns
RowSets == {<< >>, <<[symbol |-> "TCS.NS"]>>}
\* what a rejected fetch() carries: a TypeError
FetchErrors == {[isError |-> TRUE, message |-> "Failed to fetch"]}

newCondition == [operator |-> "GT", operands |-> <<"marketCap", Num("0")>>]

\* operands[k] of a JavaScript array (k from 0), undefined beyond its end
At(arr, k) == IF k + 1 \in DOMAIN arr THEN arr[k + 1] ELSE Undefined

\* onChange of the comparison select of condition index:
\* updateCondition(index, condition.operands[0], e.target.value)
onComparisonChange(q, index, op) ==
    [q EXCEPT !.operands =
        [i \in DOMAIN @ |->
            IF i - 1 = index
            THEN [@[i] EXCEPT !.operands = <<At(@, 0), Text(op)>>]
            ELSE @[i]]]

addCondition(q) ==
    [q EXCEPT !.operands = Append(@, newCondition)]

updateCondition(q, index, field, value) ==
    [q EXCEPT !.operands =
        [i \in DOMAIN @ |->
            IF i - 1 = index THEN [@[i] EXCEPT !.operands = <<field, value>>]
            ELSE @[i]]]

\* operands.filter((_, i) => i !== index)
RECURSIVE FilterOut(_, _, _)
FilterOut(ops, i, index) ==
    IF i >= Len(ops) THEN << >>
    ELSE (IF i # index THEN <<ops[i + 1]>> ELSE << >>) \o FilterOut(ops, i + 1, index)

\* a plausible slip: the filter keeps i !== index + 1
removeCondition_offByOne(q, index) ==
    [q EXCEPT !.operands = FilterOut(@, 0, index + 1)]

removeCondition(q, index) ==
    [q EXCEPT !.operands = FilterOut(@, 0, index)]

\* JSON.stringify of an operand value: undefined inside an array, at any
\* depth, is written as null, everything else as itself
JsonNull == [t |-> "null"]
RECURSIVE JsonValue(_)
JsonValue(v) ==
    IF v = Undefined THEN JsonNull
    ELSE IF v.t = "array"
         THEN [v EXCEPT !.items = [k \in DOMAIN @ |-> JsonValue(@[k])]]
         ELSE v
JsonCondition(c) ==
    [operator |-> c.operator,
     operands |-> <<c.operands[1], JsonValue(c.operands[2])>>]

\* a plausible slip: the query posted bare, without the { query } wrapper
ExecuteBody_unwrapped(q) ==
    [operator |-> q.operator,
     operands |-> [i \in DOMAIN q.operands |-> JsonCondition(q.operands[i])]]

\* body: JSON.stringify({ query })
ExecuteBody(q) ==
    [query |-> [operator |-> q.operator,
                operands |-> [i \in DOMAIN q.operands |-> JsonCondition(q.operands[i])]]]

\* The controls on screen are those of the last render.  A setter called
\* by an event handler is rendered before the handler's event ends; one
\* called by the effect or after an await is rendered in a later task, and
\* until then the controls of the render before can be used.  query and
\* queryType are set by event handlers only.

\* a plausible slip: Search disabled while loading only
SearchDisabled_loadingOnly == qShown.loading

\* disabled={loading || query.operands.length === 0}
SearchDisabled == qShown.loading \/ Len(query.operands) = 0

\* the early return that renders the spinner alone
SpinnerOnly == qShown.loading /\ qShown.fields = "none"

QBInit ==
    /\ queryType = "equity"
    /\ fields = "none"
    /\ values = "none"
    /\ qLoading = FALSE
    /\ qError = Null
    /\ results = << >>
    /\ query = [operator |-> "AND", operands |-> << >>]
    /\ qPhase = "rendered"
    /\ qShown = [loading |-> FALSE, fields |-> "none"]
    /\ qPending = {}
    /\ qIssued = 0

\* the request of kind k for query type t with body b, the n-th issued
Request(n, k, t, b) == [id |-> n, kind |-> k, type |-> t, body |-> b]

\* the effect of the first render, if it has not run yet: React runs it
\* before it handles an event
EffectBefore == IF qPhase = "rendered" THEN {Request(qIssued + 1, "fields", queryType, Null)}
                ELSE {}

\* fetch(...) of request kind k for query type t with body b
Fetch(k, t, b) ==
    /\ qIssued < MaxQReq
    /\ qIssued' = qIssued + 1
    /\ qPending' = qPending \cup {Request(qIssued + 1, k, t, b)}

\* fetchFieldsAndValues up to its await, for query type t
fetchFieldsAndValues(t) ==
    /\ qLoading' = TRUE
    /\ qError' = Null
    /\ Fetch("fields", t, Null)

\* the effect's first run
QBMount ==
    /\ qPhase = "rendered"
    /\ qPhase' = "mounted"
    /\ fetchFieldsAndValues(queryType)
    /\ UNCHANGED <<queryType, fields, values, results, query, qShown, besideQB>>

\* React renders what the effect and the continuations set
QBRender ==
    /\ qPhase = "mounted"
    /\ qShown # [loading |-> qLoading, fields |-> fields]
    /\ qShown' = [loading |-> qLoading, fields |-> fields]
    /\ UNCHANGED <<queryType, fields, values, qLoading, qError, results, query, qPhase,
                   qPending, qIssued, besideQB>>

\* the query-type select changes: setQueryType, then the effect runs again
\* (fetchFieldsAndValues for the new type)
QBTypeChange ==
    /\ qPhase \in {"rendered", "mounted"} /\ ~SpinnerOnly
    /\ qIssued + Cardinality(EffectBefore) < MaxQReq
    /\ \E t \in QueryTypes \ {queryType} :
         /\ queryType' = t
         /\ qLoading' = TRUE
         /\ qError' = Null
         /\ qIssued' = qIssued + Cardinality(EffectBefore) + 1
         /\ qPending' = qPending \cup EffectBefore
                \cup {Request(qIssued + Cardinality(EffectBefore) + 1, "fields", t, Null)}
    /\ qPhase' = "mounted"
    /\ UNCHANGED <<fields, values, results, query, qShown, besideQB>>

\* an event whose handler sets the query only
QueryEvent ==
    /\ qPhase \in {"rendered", "mounted"} /\ ~SpinnerOnly
    /\ qPhase' = "mounted"
    /\ IF qPhase = "rendered"
       THEN fetchFieldsAndValues(queryType)
       ELSE UNCHANGED <<qLoading, qError, qPending, qIssued>>
    /\ UNCHANGED <<queryType, fields, values, results, qShown, besideQB>>

\* fetchFieldsAndValues after Promise.all settled: both responses ok, one
\* of them not ok, or a fetch rejected
QBFieldsSettle ==
    /\ \E r \in qPending :
         /\ r.kind = "fields"
         /\ qPending' = qPending \ {r}
         /\ \/ /\ fields' = r.type
               /\ values' = r.type
               /\ qError' = qError
            \/ /\ qError' = Str("Failed to fetch query data")
               /\ UNCHANGED <<fields, values>>
            \/ /\ \E err \in FetchErrors :
                    qError' = Str(ErrorMessage(err, "An error occurred"))
               /\ UNCHANGED <<fields, values>>
    /\ qLoading' = FALSE
    /\ UNCHANGED <<queryType, results, query, qPhase, qShown, qIssued, besideQB>>

\* + Add Condition
QBAdd ==
    /\ QueryEvent
    /\ Len(query.operands) < MaxConds
    /\ query' = addCondition(query)

\* the onChange handlers of the controls of condition index: the comparison
\* select, the field select, the Min and Max inputs of a BTWN condition, the
\* value input of any other
QBUpdate ==
    /\ QueryEvent
    /\ \E index \in 0 .. Len(query.operands) - 1 :
         LET condition == query.operands[index + 1] IN
         \/ \E op \in Comparisons :
              query' = onComparisonChange(query, index, op)
         \/ \E f \in FieldList(qShown.fields) :
              query' = updateCondition(query, index, f, At(condition.operands, 1))
         \/ /\ condition.operator = "BTWN"
            /\ \E x \in Typed :
                 \/ query' = updateCondition(query, index, At(condition.operands, 0),
                                             Arr(Text(x), At(condition.operands, 2)))
                 \/ query' = updateCondition(query, index, At(condition.operands, 0),
                                             Arr(At(condition.operands, 1), Text(x)))
         \/ /\ condition.operator # "BTWN"
            /\ \E x \in Typed :
                 query' = updateCondition(query, index, At(condition.operands, 0), Text(x))

\* Remove
QBRemove ==
    /\ QueryEvent
    /\ \E index \in 0 .. Len(query.operands) - 1 :
         query' = removeCondition(query, index)

\* Search: executeQuery up to its await
QBExecute ==
    /\ qPhase = "mounted" /\ ~SpinnerOnly
    /\ ~SearchDisabled
    /\ qLoading' = TRUE
    /\ qError' = Null
    /\ qShown' = [qShown EXCEPT !.loading = TRUE]
    /\ Fetch("execute", queryType, ExecuteBody(query))
    /\ UNCHANGED <<queryType, fields, values, results, query, qPhase, besideQB>>

\* executeQuery after its await: rows, a response not ok, or a rejection
QBExecuteSettle ==
    /\ \E r \in qPending :
         /\ r.kind = "execute"
         /\ qPending' = qPending \ {r}
         /\ \/ /\ \E rows \in RowSets : results' = rows
               /\ qError' = qError
            \/ /\ qError' = Str("Failed to execute query")
               /\ UNCHANGED results
            \/ /\ \E err \in FetchErrors :
                    qError' = Str(ErrorMessage(err, "An error occurred"))
               /\ UNCHANGED results
    /\ qLoading' = FALSE
    /\ UNCHANGED <<queryType, fields, values, query, qPhase, qShown, qIssued, besideQB>>

(***************************************************************************)
(* The AI chat widget (components/AIChat.tsx).  Text is a sequence of      *)
(* pieces; a piece of white space is " ".                                  *)
(***************************************************************************)
Whitespace == {" "}

RECURSIVE TrimStart(_)
TrimStart(s) ==
    IF s # << >> /\ Head(s) \in Whitespace THEN TrimStart(Tail(s)) ELSE s

RECURSIVE TrimEnd(_)
TrimEnd(s) ==
    IF s # << >> /\ s[Len(s)] \in Whitespace
    THEN TrimEnd(SubSeq(s, 1, Len(s) - 1))
    ELSE s

\* String.prototype.trim
Trim(s) == TrimEnd(TrimStart(s))

\* String.prototype.replace(pattern, by) with a string pattern: the first
\* occurrence only
RECURSIVE Replace(_, _, _)
Replace(s, pattern, by) ==
    IF s = << >> THEN << >>
    ELSE IF Head(s) = pattern THEN <<by>> \o Tail(s)
    ELSE <<Head(s)>> \o Replace(Tail(s), pattern, by)

tickerOptions ==
    << [value |-> "RELIANCE.NS", label |-> "Reliance"],
       [value |-> "TCS.NS", label |-> "TCS"],
       [value |-> "HDFCBANK.NS", label |-> "HDFC Bank"],
       [value |-> "INFY.NS", label |-> "Infosys"],
       [value |-> "SBIN.NS", label |-> "SBI"] >>

quickQuestions ==
    << [text |-> "Buy/Sell Analysis",
        question |-> <<"Should I buy ", "{ticker}", " right now?">>],
       [text |-> "Risk Assessment",
        question |-> <<"What are the risks of ", "{ticker}", "?">>],
       [text |-> "Price Target",
        question |-> <<"Price target for ", "{ticker}", "?">>],
       [text |-> "Volume Analysis",
        question |-> <<"Volume analysis for ", "{ticker}", "?">>] >>

\* the options the user picks in the ticker select
PickedTickers == {"RELIANCE.NS", "TCS.NS"}
\* the quick-question buttons the user clicks
ClickedQuestions == {1, 2}
\* what the user types into the input
TypedMessages == {<<" ">>, <<" ", "Is it a buy?", " ">>}
\* the bodies /ask answers with: an answer alone, an answer with a context
\* carrying a current price, one whose price is 0, one without a price, an
\* error flagged without an answer; prices and percentages are in hundredths
AskResponses ==
    { [error |-> FALSE, answer |-> <<"Hold.">>, context |-> Null],
      [error |-> FALSE, answer |-> <<"Hold.">>,
       context |-> [current_price |-> 245050, price_change_pct |-> -125]],
      [error |-> FALSE, answer |-> <<"Hold.">>, context |-> [current_price |-> 0]],
      [error |-> FALSE, answer |-> <<"Hold.">>, context |-> [price_change_pct |-> 150]],
      [error |-> TRUE, answer |-> << >>, context |-> Null] }

\* the label of the option whose value is newTicker, or newTicker itself
tickerLabel(newTicker) ==
    IF \E i \in DOMAIN tickerOptions : tickerOptions[i].value = newTicker
    THEN tickerOptions[CHOOSE i \in DOMAIN tickerOptions :
                           /\ tickerOptions[i].value = newTicker
                           /\ \A j \in 1 .. i - 1 : tickerOptions[j].value # newTicker].label
    ELSE newTicker

\* useState initial values; the greeting's id is the literal '1'
ChatInitial ==
    [ messages |-> << [id |-> 1, sender |-> "ai", content |-> <<"Hi! I'm your AI stock assistant.">>] >>,
      currentTicker |-> "RELIANCE.NS",
      inputMessage |-> << >>,
      isLoading |-> FALSE,
      isMinimized |-> FALSE,
      asks |-> {},
      issued |-> 0 ]

\* addMessage putting the new message first
addMessage_newestFirst(c, sender, content, t) ==
    [c EXCEPT !.messages = <<[id |-> t, sender |-> sender, content |-> content]>> \o @]

\* setMessages(prev => [...prev, newMessage]) with id Date.now() read at t
addMessage(c, sender, content, t) ==
    [c EXCEPT !.messages = Append(@, [id |-> t, sender |-> sender, content |-> content])]

\* Number.prototype.toFixed(2) of a number given in hundredths
Fixed2(n) ==
    LET a == IF n < 0 THEN -n ELSE n
        cents == a % 100
    IN  (IF n < 0 THEN "-" ELSE "") \o ToString(a \div 100) \o "."
            \o (IF cents < 10 THEN "0" ELSE "") \o ToString(cents)

\* context.current_price as a condition: a missing price and 0 are falsy
hasPrice(context) ==
    "current_price" \in DOMAIN context /\ context.current_price # 0

\* the text addContextInfo builds from the context: the price, the change
\* with its colour class and sign, the volume line if there is one
contextContent(context) ==
    LET priceChange == IF "price_change_pct" \in DOMAIN context
                       THEN context.price_change_pct ELSE 0
        changeClass == IF priceChange >= 0 THEN "text-green-600" ELSE "text-red-600"
        changeSymbol == IF priceChange >= 0 THEN "+" ELSE ""
    IN  <<"Current Market Data", Fixed2(context.current_price),
          changeClass, changeSymbol \o Fixed2(priceChange) \o "%">>
        \o (IF "volume_analysis" \in DOMAIN context
            THEN <<"Volume: " \o context.volume_analysis.strength,
                   context.volume_analysis.trend>>
            ELSE << >>)

\* reading a property of null throws
TypeError == [throws |-> "TypeError"]

addContextInfo(c, context, t) ==
    IF context = Null THEN TypeError
    ELSE IF ~hasPrice(context) THEN c
    ELSE addMessage(c, "ai", contextContent(context), t)

\* askQuestion asking about the first ticker option whatever is selected
askQuestion_firstOption(c, question) ==
    [c EXCEPT !.isLoading = TRUE,
              !.issued = @ + 1,
              !.asks = @ \cup {[id |-> c.issued + 1, q |-> question, ticker |-> tickerOptions[1].value]}]

\* askQuestion up to its await: setIsLoading(true) and the fetch of
\* /ask?q=question&ticker=currentTicker
askQuestion(c, question) ==
    [c EXCEPT !.isLoading = TRUE,
              !.issued = @ + 1,
              !.asks = @ \cup {[id |-> c.issued + 1, q |-> question, ticker |-> c.currentTicker]}]

\* askQuestion after its await, the body data parsed: t and t2 are the clock
\* readings of the first and the second addMessage
askResolved(c, a, data, t, t2) ==
    LET replied ==
            IF data.error
            THEN addMessage(c, "ai",
                     <<"Sorry, I encountered an error: ">> \o
                     (IF data.answer # << >> THEN data.answer ELSE <<"Please try again.">>),
                     t)
            ELSE IF data.context # Null /\ hasPrice(data.context)
            THEN addContextInfo(addMessage(c, "ai", data.answer, t), data.context, t2)
            ELSE addMessage(c, "ai", data.answer, t)
    IN  [replied EXCEPT !.isLoading = FALSE, !.asks = @ \ {a}]

\* askQuestion without its finally block: a failure leaves the flag set
askRejected_noFinally(c, a, t) ==
    [addMessage(c, "ai", <<"Sorry, I'm having trouble connecting.">>, t)
        EXCEPT !.asks = @ \ {a}]

\* askQuestion after its await, the fetch or the parse having thrown
askRejected(c, a, t) ==
    [addMessage(c, "ai", <<"Sorry, I'm having trouble connecting.">>, t)
        EXCEPT !.isLoading = FALSE, !.asks = @ \ {a}]

sendMessage(c, t) ==
    LET message == Trim(c.inputMessage) IN
    IF message = << >> \/ c.isLoading THEN c
    ELSE askQuestion([addMessage(c, "user", message, t) EXCEPT !.inputMessage = << >>],
                     message)

handleQuickQuestion(c, question) ==
    askQuestion(c, Replace(question, "{ticker}", c.currentTicker))

\* handleTickerChange starting the conversation over
handleTickerChange_clears(c, newTicker, t) ==
    addMessage([c EXCEPT !.currentTicker = newTicker, !.messages = << >>], "system",
               <<"Switched to analyzing ", tickerLabel(newTicker)>>, t)

handleTickerChange(c, newTicker, t) ==
    addMessage([c EXCEPT !.currentTicker = newTicker], "system",
               <<"Switched to analyzing ", tickerLabel(newTicker)>>, t)

\* the list has room for n more messages beside the replies still to come
Room(c, n) == Len(c.messages) + n + 2 * Cardinality(c.asks) <= MaxMsgs

ChatInit ==
    /\ chat = ChatInitial
    /\ now = 2

\* onChange of the input, rendered unless minimized and disabled while loading
ChatType ==
    /\ ~chat.isMinimized /\ ~chat.isLoading
    /\ \E text \in TypedMessages \cup {<< >>} :
        /\ text # chat.inputMessage
        /\ chat' = [chat EXCEPT !.inputMessage = text]
    /\ UNCHANGED <<now, besideChat>>

\* the Send button or Enter in the input
ChatSend ==
    /\ ~chat.isMinimized /\ ~chat.isLoading
    /\ Room(chat, 3)
    /\ sendMessage(chat, now) # chat
    /\ chat' = sendMessage(chat, now)
    /\ UNCHANGED <<now, besideChat>>

\* a quick-question button, rendered unless minimized and disabled while loading
ChatQuickQuestion ==
    /\ ~chat.isMinimized /\ ~chat.isLoading
    /\ Room(chat, 2)
    /\ \E i \in ClickedQuestions :
        chat' = handleQuickQuestion(chat, quickQuestions[i].question)
    /\ UNCHANGED <<now, besideChat>>

\* the ticker select in the header, always rendered and never disabled
ChatTickerChange ==
    /\ Room(chat, 1)
    /\ \E newTicker \in PickedTickers :
        /\ newTicker # chat.currentTicker
        /\ chat' = handleTickerChange(chat, newTicker, now)
    /\ UNCHANGED <<now, besideChat>>

\* the minimize button: setIsMinimized(!isMinimized)
ChatMinimize ==
    /\ chat' = [chat EXCEPT !.isMinimized = ~@]
    /\ UNCHANGED <<now, besideChat>>

\* a response to /ask arrives and parses
ChatResolve ==
    /\ \E a \in chat.asks : \E data \in AskResponses :
       \E t2 \in {t \in {now, now + 1} : t <= MaxNow} :
        /\ chat' = askResolved(chat, a, data, now, t2)
        /\ now' = IF data.error \/ data.context = Null \/ ~hasPrice(data.context)
                  THEN now ELSE t2
    /\ UNCHANGED <<besideChat>>

\* the fetch of /ask fails, or its body is not JSON
ChatReject ==
    /\ \E a \in chat.asks : chat' = askRejected(chat, a, now)
    /\ UNCHANGED <<now, besideChat>>

\* a millisecond passes
ChatTick ==
    /\ now < MaxNow
    /\ now' = now + 1
    /\ UNCHANGED <<chat, besideChat>>

\* no chat widget beside the component
ChatIdle ==
    /\ chat = Null
    /\ now = 0

(***************************************************************************)
(* cleanTicker (api/index.ts and its copies): a string is the sequence of  *)
(* its characters.                                                         *)
(***************************************************************************)
\* the character class ['"]
Quotes == {"'", "\""}
\* the characters of the strings explored
TickerChars == Quotes \cup Whitespace \cup {"a", "A"}

\* String.prototype.toUpperCase, character by character
UpperChar(ch) == IF ch = "a" THEN "A" ELSE ch
toUpperCase(s) == [i \in DOMAIN s |-> UpperChar(s[i])]

\* the match of ^['"]+ removed
RECURSIVE StripLeadingQuotes(_)
StripLeadingQuotes(s) ==
    IF s # << >> /\ Head(s) \in Quotes THEN StripLeadingQuotes(Tail(s)) ELSE s

\* the match of ['"]+$ removed
RECURSIVE StripTrailingQuotes(_)
StripTrailingQuotes(s) ==
    IF s # << >> /\ s[Len(s)] \in Quotes
    THEN StripTrailingQuotes(SubSeq(s, 1, Len(s) - 1))
    ELSE s

\* cleanTicker removing one quote at each end only
cleanTicker_oneQuote(t) ==
    LET a == IF t # << >> /\ Head(t) \in Quotes THEN Tail(t) ELSE t
        b == IF a # << >> /\ a[Len(a)] \in Quotes THEN SubSeq(a, 1, Len(a) - 1) ELSE a
    IN  toUpperCase(b)

\* ticker.replace(/^['"]+|['"]+$/g, '').toUpperCase()
cleanTicker(t) == toUpperCase(StripTrailingQuotes(StripLeadingQuotes(t)))

RECURSIVE StringsUpTo(_)
StringsUpTo(n) ==
    IF n = 0 THEN {<< >>}
    ELSE LET shorter == StringsUpTo(n - 1) IN
         shorter \cup {Append(s, ch) : s \in {x \in shorter : Len(x) = n - 1}, ch \in TickerChars}

TickerInit ==
    /\ ticker \in StringsUpTo(MaxTickerLen)
    /\ cleaned = << >>

\* a caller normalises the ticker, or what an earlier call returned
TickerClean ==
    /\ Len(cleaned) < MaxCleans
    /\ cleaned' = Append(cleaned, cleanTicker(IF cleaned = << >> THEN ticker
                                              ELSE cleaned[Len(cleaned)]))
    /\ UNCHANGED <<ticker, besideTicker>>

\* no ticker being normalised
TickerIdle ==
    /\ ticker = << >>
    /\ cleaned = << >>

(***************************************************************************)
(* The Dashboard view (components/Dashboard.tsx) and the panels it         *)
(* renders: a rendered element is a record, a list of elements a sequence. *)
(***************************************************************************)
\* a string in a condition: '' is falsy
Truthy(e) == e # Null /\ e.message # ""

\* Array.prototype.slice(begin, end) with 0 <= begin <= end
slice(arr, begin, end) ==
    SubSeq(arr, begin + 1, IF end < Len(arr) THEN end ELSE Len(arr))

\* stocks.map(stock => <StockCard key={stock.ticker} stock={stock} />)
StockGrid(stocks) ==
    [i \in DOMAIN stocks |-> [element |-> "StockCard", key |-> stocks[i].ticker, stock |-> stocks[i]]]

\* NewsPanel showing every item
NewsPanel_all(news) ==
    IF Len(news) = 0
    THEN << [element |-> "p", text |-> "No news available"] >>
    ELSE [i \in DOMAIN news |-> [element |-> "NewsCard", key |-> i - 1, news |-> news[i]]]

\* news.slice(0, 5).map((item, index) => <NewsCard key={index} news={item} />)
NewsPanel(news) ==
    IF Len(news) = 0
    THEN << [element |-> "p", text |-> "No news available"] >>
    ELSE LET shown == slice(news, 0, NewsShown) IN
         [i \in DOMAIN shown |-> [element |-> "NewsCard", key |-> i - 1, news |-> shown[i]]]

\* signals.map((signal, index) => <div key={index}>...</div>)
SignalsPanel(signals) ==
    IF Len(signals) = 0
    THEN << [element |-> "p", text |-> "No signals available"] >>
    ELSE [i \in DOMAIN signals |-> [element |-> "signal", key |-> i - 1, signal |-> signals[i]]]

\* which of its four returns Dashboard takes
DashboardView(r) ==
    IF r.loading THEN "spinner"
    ELSE IF Truthy(r.error) THEN "error"
    ELSE IF r.data = Null THEN "nodata"
    ELSE "main"

\* what Dashboard returns
Dashboard(r) ==
    CASE DashboardView(r) = "spinner" -> [view |-> "spinner"]
      [] DashboardView(r) = "error" ->
            [view |-> "error", message |-> r.error, onRetry |-> "window.location.reload"]
      [] DashboardView(r) = "nodata" -> [view |-> "nodata"]
      [] DashboardView(r) = "main" ->
            [view |-> "main",
             count |-> Len(r.data.stocks),
             stockGrid |-> StockGrid(r.data.stocks),
             signalsPanel |-> SignalsPanel(r.data.signals),
             newsPanel |-> NewsPanel(r.data.news),
             chat |-> "AIChat"]

RECURSIVE ListsUpTo(_, _)
ListsUpTo(items, n) ==
    IF n = 0 THEN {<< >>}
    ELSE LET shorter == ListsUpTo(items, n - 1) IN
         shorter \cup {Append(l, x) : l \in {y \in shorter : Len(y) = n - 1}, x \in items}

\* the bundles /dashboard answers with
Bundles ==
    [stocks : ListsUpTo({[ticker |-> "TCS.NS"], [ticker |-> "INFY.NS"]}, MaxStocks),
     news : ListsUpTo({[title |-> "Results"], [title |-> "Merger"]}, MaxNews),
     signals : ListsUpTo({[ticker |-> "TCS.NS", signal |-> "buy"],
                          [ticker |-> "TCS.NS", signal |-> "sell"]}, MaxSignals)]

\* what the hook hands to Dashboard: the data of the last answer is kept
\* while the next request loads and beside the error of a failed one
HookResults ==
    [data : {Null} \cup Bundles,
     loading : BOOLEAN,
     error : {Null} \cup {Str(ErrorMessage(err, "Failed to fetch data")) : err \in Errors}]

ViewInit ==
    /\ dashResult \in HookResults
    /\ dashTree = Null

\* React renders Dashboard
ViewRender ==
    /\ dashTree = Null
    /\ dashTree' = Dashboard(dashResult)
    /\ UNCHANGED <<dashResult, besideView>>

\* no Dashboard being rendered
ViewIdle ==
    /\ dashResult = Null
    /\ dashTree = Null

(***************************************************************************)
(* Dashboard on screen: the polling useDashboardData it calls, and the     *)
(* AIChat it renders in its last return only.  A component that is not     *)
(* rendered is unmounted and its state is gone; rendered again, it starts  *)
(* from its initial state.                                                 *)
(***************************************************************************)
\* the components Dashboard imports with React.lazy, in the order its last
\* return renders them
LazyModules == <<"StockGrid", "SignalsPanel", "NewsPanel", "AIChat">>

\* the tickers App hands to Dashboard
AppTickers == <<"TCS.NS", "INFY.NS">>

DashInit ==
    /\ hook = "polling"
    /\ phase = "rendered"
    /\ inputs = [tickers |-> AppTickers]
    /\ st = InitialState("polling")
    /\ effect = 0
    /\ isMounted = {}
    /\ timers = << >>
    /\ reqs = << >>
    /\ settled = << >>
    /\ lateSets = 0
    /\ chat = Null
    /\ now = 2
    /\ lazyImports = [m \in DOMAIN LazyModules |-> "unrequested"]
    /\ screen = [view |-> "spinner", due |-> FALSE]
    /\ orphans = 0

\* a step of the hook: React renders its state changes in a later task
ScheduleRender ==
    /\ screen' = [screen EXCEPT !.due = @ \/ (phase' = "mounted" /\ st' # st)]
    /\ UNCHANGED <<chat, now, lazyImports, orphans, qbVars, tickerVars, viewVars,
                   formatVars, domain, detail>>

\* StockGrid, SignalsPanel or NewsPanel is not loaded: rendered with no
\* Suspense boundary above it, it suspends the whole render
Suspending == \E i \in 1 .. 3 : lazyImports[i] # "resolved"

\* React renders Dashboard from the hook's state.  An early return is
\* committed as it is, AIChat unmounted.  The last return renders the four
\* lazy components, which starts the import of each one not requested yet;
\* if one of the three panels is not loaded nothing is committed; with the
\* three loaded it is committed, with AIChat inside its Suspense boundary:
\* kept or mounted if its import resolved, the fallback in its place
\* otherwise
DashRender ==
    /\ phase = "mounted"
    /\ screen.due
    /\ IF DashboardView(st) # "main"
       THEN /\ screen' = [view |-> DashboardView(st), due |-> FALSE]
            /\ chat' = Null
            /\ UNCHANGED lazyImports
       ELSE /\ lazyImports' = [m \in DOMAIN LazyModules |->
                                  IF lazyImports[m] = "unrequested" THEN "pending"
                                  ELSE lazyImports[m]]
            /\ IF Suspending
               THEN /\ screen' = [screen EXCEPT !.due = FALSE]
                    /\ UNCHANGED chat
               ELSE /\ screen' = [view |-> "main", due |-> FALSE]
                    /\ chat' = IF lazyImports[4] = "resolved"
                               THEN IF chat = Null THEN ChatInitial ELSE chat
                               ELSE Null
    /\ UNCHANGED <<hookVars, now, orphans, qbVars, tickerVars, viewVars, formatVars,
                   domain, detail>>

\* an import() resolves: React renders again what was waiting for it
DashImported ==
    /\ \E m \in DOMAIN LazyModules :
         /\ lazyImports[m] = "pending"
         /\ lazyImports' = [lazyImports EXCEPT ![m] = "resolved"]
    /\ screen' = [screen EXCEPT !.due = @ \/ phase = "mounted"]
    /\ UNCHANGED <<hookVars, chat, now, orphans, qbVars, tickerVars, viewVars, formatVars,
                   domain, detail>>

DashMount == MountStep /\ ScheduleRender
DashPoll == TimerFireStep /\ ScheduleRender
DashResolve == ResolveStep /\ ScheduleRender
DashReject == RejectStep /\ ScheduleRender
\* App shows another view: Dashboard and what it rendered are unmounted in
\* the commit of that click
DashLeave ==
    /\ UnmountStep
    /\ chat' = Null
    /\ screen' = [view |-> "none", due |-> FALSE]
    /\ UNCHANGED <<now, lazyImports, orphans, qbVars, tickerVars, viewVars, formatVars,
                   domain, detail>>

\* App shows the dashboard again: a new Dashboard with a new hook state is
\* rendered and its effect runs, before the click ends.  The requests the
\* old one left outstanding stay outstanding; the imports are kept
DashReturn ==
    LET eff == EffectOf(hook, inputs)
        first == InitialState(hook)
        left == Cardinality({r \in DOMAIN reqs : reqs[r].status = "pending"}) IN
    /\ phase = "unmounted"
    /\ lateSets + orphans + left <= MaxLate
    /\ phase' = "mounted"
    /\ effect' = 1
    /\ isMounted' = IF HasMountedFlag(hook) THEN {1} ELSE {}
    /\ st' = ApplyCalls(first, eff.calls)
    /\ reqs' = IF eff.fetch THEN <<[eff |-> 1, status |-> "pending"]>> ELSE << >>
    /\ timers' = IF eff.fetch
                 THEN <<[eff |-> 1, delay |-> eff.delay, active |-> TRUE, clears |-> 0]>>
                 ELSE << >>
    /\ settled' = << >>
    /\ orphans' = orphans + left
    /\ screen' = [view |-> DashboardView(first), due |-> st' # first]
    /\ UNCHANGED <<hook, inputs, lateSets, chat, now, lazyImports, qbVars, tickerVars,
                   viewVars, formatVars, domain, detail>>

\* a request of a Dashboard unmounted before answers or fails: the setters
\* of its continuation are called on the unmounted component
DashLateAnswer ==
    /\ orphans > 0
    /\ orphans' = orphans - 1
    /\ \/ lateSets' = lateSets + Len(FetchSuccessOf(hook, 0, Payload(0)))
       \/ \E err \in Errors : lateSets' = lateSets + Len(FetchFailureOf(hook, 0, err))
    /\ UNCHANGED <<hook, phase, inputs, st, effect, isMounted, timers, reqs, settled,
                   chat, now, lazyImports, screen, qbVars, tickerVars, viewVars,
                   formatVars, domain, detail>>

\* the user types into the chat, or minimizes it
DashChatType == chat # Null /\ ChatType
DashChatMinimize == chat # Null /\ ChatMinimize

(***************************************************************************)
(* The magnitude formatters of QuoteCard, FastInfoCard and the Yahoo       *)
(* utilities.  A non-negative whole number is the sequence of its decimal  *)
(* digits, the text returned a sequence of characters.                     *)
(***************************************************************************)
DigitChars == <<"0", "1", "2", "3", "4", "5", "6", "7", "8", "9">>
DigitVal(ch) == CHOOSE d \in 0 .. 9 : DigitChars[d + 1] = ch
Zeros(n) == [i \in 1 .. n |-> "0"]

\* the digits of the number one greater
RECURSIVE Increment(_)
Increment(ds) ==
    IF ds = << >> THEN <<"1">>
    ELSE IF ds[Len(ds)] = "9" THEN Increment(SubSeq(ds, 1, Len(ds) - 1)) \o <<"0">>
    ELSE SubSeq(ds, 1, Len(ds) - 1) \o <<DigitChars[DigitVal(ds[Len(ds)]) + 2]>>

\* value >= 10^k, for a value without leading zeros
AtLeast(ds, k) == Len(ds) > k /\ (k = 0 \/ ds # <<"0">>)

\* the number modulo m
RECURSIVE ModOf(_, _)
ModOf(ds, m) ==
    IF ds = << >> THEN 0
    ELSE (10 * ModOf(SubSeq(ds, 1, Len(ds) - 1), m) + DigitVal(ds[Len(ds)])) % m

\* the digits of half the number, rounded down; carry is the remainder
\* brought down from the digit before
RECURSIVE HalfFrom(_, _)
HalfFrom(ds, carry) ==
    IF ds = << >> THEN << >>
    ELSE LET d == 10 * carry + DigitVal(Head(ds)) IN
         <<DigitChars[(d \div 2) + 1]>> \o HalfFrom(Tail(ds), d % 2)
Half(ds) ==
    LET h == HalfFrom(ds, 0) IN
    IF Len(h) > 1 /\ Head(h) = "0" THEN Tail(h) ELSE h

\* the binary exponent of a number >= 1: the e with 2^e <= number < 2^(e+1)
RECURSIVE Log2Floor(_)
Log2Floor(ds) == IF ds = <<"1">> THEN 0 ELSE 1 + Log2Floor(Half(ds))

\* 2^j modulo m
RECURSIVE Pow2Mod(_, _)
Pow2Mod(j, m) == IF j = 0 THEN 1 % m ELSE (2 * Pow2Mod(j - 1, m)) % m

RECURSIVE Pow5(_)
Pow5(n) == IF n = 0 THEN 1 ELSE 5 * Pow5(n - 1)

\* (value / 10^k).toFixed(dec) for value >= 10^k or k = 0.  The quotient is
\* the double nearest to value / 10^k, and toFixed rounds that double to the
\* nearest text of dec decimals, the larger of two equally near.  Unless
\* the digits dropped are 5 followed by zeros they decide.  If they are, the
\* exact quotient is p / (2^(dec+1) * 5^dec) with p odd: a double when 5^dec
\* divides p (rounded up), and otherwise above or below the half-way point
\* as the division rounded it, which the remainder of p * 2^(52-e-dec-1)
\* modulo 5^dec tells (e the binary exponent of the quotient)
toFixed(ds, k, dec) ==
    LET cut == Len(ds) - (k - dec)
        kept == SubSeq(ds, 1, cut)
        dropped == SubSeq(ds, cut + 1, Len(ds))
        halfWay == /\ dropped[1] = "5"
                   /\ \A i \in 2 .. Len(dropped) : dropped[i] = "0"
        m == Pow5(dec)
        e == Log2Floor(SubSeq(ds, 1, Len(ds) - k))
        r == (((2 * ModOf(kept, m) + 1) % m) * Pow2Mod(52 - e - dec - 1, m)) % m
        up == IF halfWay THEN r = 0 \/ 2 * r > m
              ELSE DigitVal(dropped[1]) >= 5
        q == IF k <= dec THEN ds \o Zeros(dec - k)
             ELSE IF up THEN Increment(kept)
             ELSE kept
    IN  SubSeq(q, 1, Len(q) - dec) \o <<".">> \o SubSeq(q, Len(q) - dec + 1, Len(q))

\* value === undefined || value === null
Absent == <<"undefined">>
NotAvailable == <<"N", "/", "A">>

\* QuoteCard: formatNumber, for undefined, null and numbers
QuoteCard_formatNumber(v) ==
    IF v = Absent THEN NotAvailable
    ELSE IF AtLeast(v, 12) THEN <<"$">> \o toFixed(v, 12, 2) \o <<"T">>
    ELSE IF AtLeast(v, 9) THEN <<"$">> \o toFixed(v, 9, 2) \o <<"B">>
    ELSE IF AtLeast(v, 6) THEN <<"$">> \o toFixed(v, 6, 2) \o <<"M">>
    ELSE IF AtLeast(v, 3) THEN <<"$">> \o toFixed(v, 3, 2) \o <<"K">>
    ELSE <<"$">> \o toFixed(v, 0, 2)

\* FastInfoCard: formatNumber
FastInfoCard_formatNumber(v) ==
    IF v = Absent THEN NotAvailable
    ELSE IF AtLeast(v, 12) THEN <<"$">> \o toFixed(v, 12, 2) \o <<"T">>
    ELSE IF AtLeast(v, 9) THEN <<"$">> \o toFixed(v, 9, 2) \o <<"B">>
    ELSE IF AtLeast(v, 6) THEN <<"$">> \o toFixed(v, 6, 2) \o <<"M">>
    ELSE IF AtLeast(v, 3) THEN <<"$">> \o toFixed(v, 3, 2) \o <<"K">>
    ELSE <<"$">> \o toFixed(v, 0, 2)

\* FastInfoCard: formatVolume; toLocaleString of a whole number below 1000
\* is its digits
formatVolume(v) ==
    IF v = Absent THEN NotAvailable
    ELSE IF AtLeast(v, 9) THEN toFixed(v, 9, 2) \o <<"B">>
    ELSE IF AtLeast(v, 6) THEN toFixed(v, 6, 2) \o <<"M">>
    ELSE IF AtLeast(v, 3) THEN toFixed(v, 3, 2) \o <<"K">>
    ELSE v

\* the Yahoo utilities: formatNumber(num: number)
utils_formatNumber(num) ==
    IF AtLeast(num, 6) THEN toFixed(num, 6, 1) \o <<"M">>
    ELSE IF AtLeast(num, 3) THEN toFixed(num, 3, 1) \o <<"K">>
    ELSE num

Formatters == {"QuoteCard.formatNumber", "FastInfoCard.formatNumber",
               "FastInfoCard.formatVolume", "utils.formatNumber"}

Format(f, v) ==
    CASE f = "QuoteCard.formatNumber" -> QuoteCard_formatNumber(v)
      [] f = "FastInfoCard.formatNumber" -> FastInfoCard_formatNumber(v)
      [] f = "FastInfoCard.formatVolume" -> formatVolume(v)
      [] f = "utils.formatNumber" -> utils_formatNumber(v)

\* the leading digits of the numbers explored
LeadingDigits ==
    {<<"1">>, <<"1", "5">>, <<"2", "3">>, <<"9", "9", "9">>,
     <<"1", "2", "3", "4">>, <<"9", "9", "9", "6">>,
     <<"1", "0", "0", "5">>, <<"1", "1", "2", "5">>, <<"1", "1", "5">>,
     <<"8", "3", "4", "5">>}

\* zero, and the leading digits followed by up to MaxExp zeros
Numbers == {<<"0">>} \cup {m \o Zeros(e) : m \in LeadingDigits, e \in 0 .. MaxExp}

FormatInit ==
    /\ formatter \in Formatters
    /\ amount \in Numbers \cup (IF formatter = "utils.formatNumber" THEN {} ELSE {Absent})
    /\ formatted = << >>

\* a component renders the value
FormatCall ==
    /\ formatted = << >>
    /\ formatted' = Format(formatter, amount)
    /\ UNCHANGED <<formatter, amount, besideFormat>>

\* no value being formatted
FormatIdle ==
    /\ formatter = "none"
    /\ amount = << >>
    /\ formatted = << >>

(***************************************************************************)
(* DomainPanel: App renders it for the sectors view and for the industries *)
(* view at the same place, so switching between the two keeps the instance *)
(* and changes its type prop.                                              *)
(***************************************************************************)
DomainTypes == {"sectors", "industries"}
\* what the user types into the search box
SearchQueries == {<< >>, <<" ">>, <<"Tech">>, <<"tech">>, <<"tech", " ">>}

\* String.prototype.toLowerCase of the texts typed
LowerCase(text) == [i \in DOMAIN text |-> IF text[i] = "Tech" THEN "tech" ELSE text[i]]

\* the list GET /<type> answers with; hits: the lower-cased texts that the
\* lower-cased name, key or symbol of the entry includes
DomainsOf(type) ==
    IF type = "sectors"
    THEN << [key |-> "technology", hits |-> {<<"tech">>}],
            [key |-> "consumer-cyclical", hits |-> {<<" ">>}] >>
    ELSE << [key |-> "biotechnology", hits |-> {<<"tech">>}],
            [key |-> "software-application", hits |-> {<<" ">>}] >>

\* the second effect: filteredDomains from domains and searchQuery
filterDomains(domains, searchQuery) ==
    IF Trim(searchQuery) = << >> THEN domains
    ELSE SelectSeq(domains, LAMBDA d : LowerCase(searchQuery) \in d.hits)

\* The panel's state is the values its setters were called with last; what
\* is on screen, and what the closures of a render read, is the state React
\* rendered last (shown).  A setter called by an event handler is rendered
\* before the handler's event ends, without the calls that wait for a later
\* render; one called by an effect or after an await is rendered in a later
\* task, together with every call made until then.
StateOf(d) ==
    [domains |-> d.domains, loading |-> d.loading, error |-> d.error,
     searchQuery |-> d.searchQuery, filteredDomains |-> d.filteredDomains]

\* useState initial values, for the type prop of the first render
DomainInitial(type) ==
    [phase |-> "rendered", type |-> type,
     domains |-> << >>, loading |-> TRUE, error |-> Null,
     searchQuery |-> << >>, filteredDomains |-> << >>,
     shown |-> [domains |-> << >>, loading |-> TRUE, error |-> Null,
                searchQuery |-> << >>, filteredDomains |-> << >>],
     domainsSet |-> FALSE,
     filterDue |-> FALSE,
     pending |-> {}, issued |-> 0]

\* fetchDomains up to its await, in the render whose prop is type
fetchDomains(d, type) ==
    [d EXCEPT !.loading = TRUE, !.error = Null,
              !.issued = @ + 1,
              !.pending = @ \cup {[id |-> d.issued + 1, type |-> type]}]

\* fetchDomains after its awaits, the response ok: setDomains(data),
\* setFilteredDomains(data), setLoading(false); domainsSet: the next render
\* has a new domains array
domainsResolved(d, r, data) ==
    [d EXCEPT !.domains = data,
              !.filteredDomains = data,
              !.domainsSet = TRUE,
              !.loading = FALSE, !.pending = @ \ {r}]

\* the second effect, due since the last render and run with the domains
\* and the searchQuery of that render
filterEffect(d) ==
    [d EXCEPT !.filteredDomains = filterDomains(d.shown.domains, d.shown.searchQuery),
              !.filterDue = FALSE]

\* React runs an effect that is due before it renders again
effectsFlushed(d) == IF d.filterDue THEN filterEffect(d) ELSE d

\* a render in a task of its own: every call made so far is rendered; the
\* second effect is due after it if domains was set
rendered(d) ==
    LET e == effectsFlushed(d) IN
    [e EXCEPT !.shown = StateOf(e), !.filterDue = e.domainsSet, !.domainsSet = FALSE]

\* fetchDomains after its await, the response not ok or the fetch rejected
domainsFailed(d, r, message) ==
    [d EXCEPT !.error = Str(message), !.loading = FALSE, !.pending = @ \ {r}]

\* the early returns of DomainPanel, by the state of the render
DomainView(d) ==
    IF d.loading THEN "spinner" ELSE IF Truthy(d.error) THEN "error" ELSE "main"

DomainInit == domain \in {DomainInitial(type) : type \in DomainTypes}

\* the effects' first run: fetchDomains, and setFilteredDomains(domains) of
\* the empty list
mounted(d) == fetchDomains([d EXCEPT !.phase = "mounted"], d.type)

DomainMount ==
    /\ domain.phase = "rendered"
    /\ domain' = mounted(domain)
    /\ UNCHANGED besideDomain

\* App switches between the sectors and the industries view: DomainPanel is
\* rendered with the other type and the first effect runs again, before the
\* click ends; what fetchDomains sets there waits for a later render
DomainTypeChange ==
    /\ domain.phase \in {"rendered", "mounted"}
    /\ LET d == IF domain.phase = "rendered" THEN mounted(domain)
                ELSE effectsFlushed(domain) IN
       /\ d.issued < MaxDomainReq
       /\ \E type \in DomainTypes \ {d.type} :
            domain' = fetchDomains([d EXCEPT !.type = type], type)
    /\ UNCHANGED besideDomain

\* Refresh in the list view, Retry in the error view: handleRefresh; the
\* setLoading(true) and setError(null) of fetchDomains are rendered before
\* the click ends
DomainRefresh ==
    /\ domain.phase = "mounted"
    /\ DomainView(domain.shown) \in {"main", "error"}
    /\ domain.issued < MaxDomainReq
    /\ domain' = [fetchDomains(effectsFlushed(domain), domain.type)
                     EXCEPT !.shown.loading = TRUE, !.shown.error = Null]
    /\ UNCHANGED besideDomain

\* the search box of the list view: handleSearch; the render has a new
\* searchQuery, so the second effect runs, before the input event ends,
\* with the domains of that render
DomainSearch ==
    /\ domain.phase = "mounted"
    /\ DomainView(domain.shown) = "main"
    /\ \E q \in SearchQueries \ {domain.searchQuery} :
         domain' = filterEffect([effectsFlushed(domain) EXCEPT !.searchQuery = q,
                                                               !.shown.searchQuery = q])
    /\ UNCHANGED besideDomain

\* React renders what the effects and the continuations of fetchDomains set
DomainRender ==
    /\ domain.phase = "mounted"
    /\ StateOf(effectsFlushed(domain)) # domain.shown \/ domain.domainsSet
    /\ domain' = rendered(domain)
    /\ UNCHANGED besideDomain

\* the second effect runs, in a task of its own
DomainFilterEffect ==
    /\ domain.filterDue
    /\ domain' = filterEffect(domain)
    /\ UNCHANGED besideDomain

\* a response arrives, ok
DomainResolve ==
    /\ \E r \in domain.pending :
         domain' = domainsResolved(domain, r, DomainsOf(r.type))
    /\ UNCHANGED besideDomain

\* a response arrives, not ok, or the fetch fails
DomainReject ==
    /\ \E r \in domain.pending :
         \/ domain' = domainsFailed(domain, r, "Failed to fetch " \o r.type)
         \/ \E err \in FetchErrors :
              domain' = domainsFailed(domain, r, ErrorMessage(err, "An error occurred"))
    /\ UNCHANGED besideDomain

\* no DomainPanel rendered
DomainIdle == domain = Null

(***************************************************************************)
(* OwnershipPanel, FastInfoPanel and QuotePanel: one ticker form each, the *)
(* same code up to the endpoint and the texts.  A ticker is the sequence   *)
(* of its pieces, white space being " ".                                   *)
(***************************************************************************)
DetailPanels == {"OwnershipPanel", "FastInfoPanel", "QuotePanel"}

\* the path the panel fetches under
Endpoint(panel) ==
    CASE panel = "OwnershipPanel" -> "/ownership/"
      [] panel = "FastInfoPanel" -> "/fastinfo/"
      [] panel = "QuotePanel" -> "/quote/"

\* the Error thrown for a 404
NotFoundText(panel) ==
    CASE panel = "OwnershipPanel" -> "No ownership data found for "
      [] panel = "FastInfoPanel" -> "No fast info found for "
      [] panel = "QuotePanel" -> "No quote data found for "

\* the Error thrown for any other response that is not ok
FailedText(panel) ==
    CASE panel = "OwnershipPanel" -> "Failed to fetch ownership data"
      [] panel = "FastInfoPanel" -> "Failed to fetch fast info"
      [] panel = "QuotePanel" -> "Failed to fetch quote data"

\* what the user types into the ticker input
DetailTickers == {<< >>, <<" ">>, <<"AAPL">>, <<"RELIANCE.NS">>}

\* useState initial values
DetailInitial(panel) ==
    [panel |-> panel, ticker |-> <<"RELIANCE.NS">>,
     data |-> Null, loading |-> FALSE, error |-> Null,
     pending |-> {}, issued |-> 0]

\* fetchOwnershipData / fetchFastInfo / fetchQuoteData up to the await
fetchDetail(d) ==
    IF Trim(d.ticker) = << >> THEN d
    ELSE [d EXCEPT !.loading = TRUE, !.error = Null,
                   !.issued = @ + 1,
                   !.pending = @ \cup {[id |-> d.issued + 1,
                                        url |-> <<Endpoint(d.panel)>> \o d.ticker,
                                        ticker |-> d.ticker]}]

\* the fetch after its awaits, the response ok
detailResolved(d, r, data) ==
    [d EXCEPT !.data = data, !.loading = FALSE, !.pending = @ \ {r}]

\* a catch block that leaves the data of the last success in place
detailFailed_keepsData(d, r, message) ==
    [d EXCEPT !.error = Str(message),
              !.loading = FALSE, !.pending = @ \ {r}]

\* the fetch after its await, the response not ok or the fetch rejected
detailFailed(d, r, message) ==
    [d EXCEPT !.error = Str(message), !.data = Null,
              !.loading = FALSE, !.pending = @ \ {r}]

\* disabled={loading || !ticker.trim()} of the submit button
SubmitDisabled(d) == d.loading \/ Trim(d.ticker) = << >>

\* {error && ...}: the error block with its Retry button
RetryShown(d) == d.error # Null /\ d.error.message # << >>

DetailInit == detail \in {DetailInitial(panel) : panel \in DetailPanels}

\* onChange of the ticker input
DetailType ==
    /\ \E text \in DetailTickers \ {detail.ticker} :
         detail' = [detail EXCEPT !.ticker = text]
    /\ UNCHANGED besideDetail

\* the form is submitted (its button clicked, or Enter in the input, which
\* submits only while the button is enabled): handleSubmit
DetailSubmit ==
    /\ ~SubmitDisabled(detail)
    /\ detail.issued < MaxDetailReq
    /\ detail' = fetchDetail(detail)
    /\ UNCHANGED besideDetail

\* the Retry button of the error block
DetailRetry ==
    /\ RetryShown(detail)
    /\ detail.issued < MaxDetailReq
    /\ detail' = fetchDetail(detail)
    /\ UNCHANGED besideDetail

\* a response arrives, ok
DetailResolve ==
    /\ \E r \in detail.pending :
         detail' = detailResolved(detail, r, [url |-> r.url])
    /\ UNCHANGED besideDetail

\* a response arrives with status 404 or another status that is not ok, or
\* the fetch fails
DetailReject ==
    /\ \E r \in detail.pending :
         \/ detail' = detailFailed(detail, r, <<NotFoundText(detail.panel)>> \o r.ticker)
         \/ detail' = detailFailed(detail, r, <<FailedText(detail.panel)>>)
         \/ \E err \in FetchErrors :
              detail' = detailFailed(detail, r, <<ErrorMessage(err, "An error occurred")>>)
    /\ UNCHANGED besideDetail

\* no detail panel rendered
DetailIdle == detail = Null

\* no Dashboard rendered
LazyIdle == lazyImports = Null /\ screen = Null /\ orphans = 0

\* no hook instance beside the screener
HookIdle ==
    /\ hook = "none"
    /\ phase = "none"
    /\ inputs = Null
    /\ st = Null
    /\ effect = 0
    /\ isMounted = {}
    /\ timers = << >>
    /\ reqs = << >>
    /\ settled = << >>
    /\ lateSets = 0

\* no screener beside the hook instance
QBIdle ==
    /\ queryType = "equity"
    /\ fields = "none"
    /\ values = "none"
    /\ qLoading = FALSE
    /\ qError = Null
    /\ results = << >>
    /\ query = [operator |-> "AND", operands |-> << >>]
    /\ qPhase = "none"
    /\ qShown = [loading |-> FALSE, fields |-> "none"]
    /\ qPending = {}
    /\ qIssued = 0

Init == HookInit /\ QBIdle /\ ChatIdle /\ TickerIdle /\ ViewIdle /\ FormatIdle /\ DomainIdle /\ DetailIdle /\ LazyIdle

Next ==
    \/ Mount
    \/ InputsChange
    \/ TimerFire
    \/ Resolve
    \/ Reject
    \/ Unmount

\* one hook instance through its life
Spec == Init /\ [][Next]_vars

InitRefresh == Init /\ hook = "dashboard"

\* one useDashboardData instance whose interval, while it is set, fires
\* sooner or later
SpecRefresh == InitRefresh /\ [][Next]_vars /\ WF_vars(TimerFire)

InitQB == HookIdle /\ QBInit /\ ChatIdle /\ TickerIdle /\ ViewIdle /\ FormatIdle /\ DomainIdle /\ DetailIdle /\ LazyIdle

NextQB ==
    \/ QBMount
    \/ QBRender
    \/ QBTypeChange
    \/ QBFieldsSettle
    \/ QBAdd
    \/ QBUpdate
    \/ QBRemove
    \/ QBExecute
    \/ QBExecuteSettle

\* one screener instance
SpecQB == InitQB /\ [][NextQB]_vars

InitChat == HookIdle /\ QBIdle /\ ChatInit /\ TickerIdle /\ ViewIdle /\ FormatIdle /\ DomainIdle /\ DetailIdle /\ LazyIdle

NextChat ==
    \/ ChatType
    \/ ChatSend
    \/ ChatQuickQuestion
    \/ ChatTickerChange
    \/ ChatMinimize
    \/ ChatResolve
    \/ ChatReject
    \/ ChatTick

\* one chat widget, mounted
SpecChat == InitChat /\ [][NextChat]_vars

InitTicker == HookIdle /\ QBIdle /\ ChatIdle /\ TickerInit /\ ViewIdle /\ FormatIdle /\ DomainIdle /\ DetailIdle /\ LazyIdle

NextTicker == TickerClean

\* one string handed to cleanTicker
SpecTicker == InitTicker /\ [][NextTicker]_vars

InitView == HookIdle /\ QBIdle /\ ChatIdle /\ TickerIdle /\ ViewInit /\ FormatIdle /\ DomainIdle /\ DetailIdle /\ LazyIdle

NextView == ViewRender

\* one render of Dashboard
SpecView == InitView /\ [][NextView]_vars

InitDash == DashInit /\ QBIdle /\ TickerIdle /\ ViewIdle /\ FormatIdle /\ DomainIdle /\ DetailIdle

NextDash ==
    \/ DashMount
    \/ DashPoll
    \/ DashResolve
    \/ DashReject
    \/ DashLeave
    \/ DashReturn
    \/ DashLateAnswer
    \/ DashRender
    \/ DashImported
    \/ DashChatType
    \/ DashChatMinimize

\* Dashboard on screen, with its hook and its chat widget
SpecDash == InitDash /\ [][NextDash]_vars

InitFormat == HookIdle /\ QBIdle /\ ChatIdle /\ TickerIdle /\ ViewIdle /\ FormatInit /\ DomainIdle /\ DetailIdle /\ LazyIdle

NextFormat == FormatCall

\* one call of a magnitude formatter
SpecFormat == InitFormat /\ [][NextFormat]_vars

InitDomain ==
    HookIdle /\ QBIdle /\ ChatIdle /\ TickerIdle /\ ViewIdle /\ FormatIdle /\ DomainInit /\ DetailIdle /\ LazyIdle

NextDomain ==
    \/ DomainMount
    \/ DomainTypeChange
    \/ DomainRefresh
    \/ DomainSearch
    \/ DomainRender
    \/ DomainFilterEffect
    \/ DomainResolve
    \/ DomainReject

\* one DomainPanel instance
SpecDomain == InitDomain /\ [][NextDomain]_vars

InitDetail ==
    HookIdle /\ QBIdle /\ ChatIdle /\ TickerIdle /\ ViewIdle /\ FormatIdle /\ DomainIdle /\ DetailInit /\ LazyIdle

NextDetail ==
    \/ DetailType
    \/ DetailRetry
    \/ DetailSubmit
    \/ DetailResolve
    \/ DetailReject

\* one instance of one of the three detail panels
SpecDetail == InitDetail /\ [][NextDetail]_vars

(***************************************************************************)
(* Properties of the hooks, checked under Spec.                            *)
(***************************************************************************)
Pending == {r \in DOMAIN reqs : reqs[r].status = "pending"}
ActiveTimers == {t \in DOMAIN timers : timers[t].active}
\* the request whose promise settled last
LastSettled == settled[Len(settled)]
\* request r settles in this step
Settles(r, how) == reqs[r].status = "pending" /\ reqs'[r].status = how

\* C1: useDashboardData with an empty ticker list has issued no request in
\* the current effect run, has no interval running, and its state is
\* data = null, loading = false, error = null, whatever earlier requests do.
C1_EmptyTickersIdle ==
    (hook = "dashboard" /\ phase = "mounted" /\ inputs.tickers = << >>) =>
        /\ st = [data |-> Null, loading |-> FALSE, error |-> Null]
        /\ ActiveTimers = {}
        /\ \A r \in DOMAIN reqs : reqs[r].eff # effect

\* the list became empty after a fetch for a non-empty list, whose response
\* has arrived since
C1_Witness ==
    /\ hook = "dashboard" /\ phase = "mounted" /\ inputs.tickers = << >>
    /\ effect = 2
    /\ \E r \in DOMAIN reqs : reqs[r].status = "ok"
    /\ st.data = Null

\* C2: in useDashboardData and useNews, the step that handles the failure of
\* a request (of the current effect run for useDashboardData, of any run for
\* useNews) of a mounted hook leaves loading false and error a string, and
\* does not change data.
C2_FailureKeepsData ==
    [][\A r \in DOMAIN reqs :
         (/\ hook \in {"dashboard", "news"}
          /\ phase = "mounted"
          /\ Settles(r, "failed")
          /\ (hook = "news" \/ reqs[r].eff = effect))
         => /\ st'.loading = FALSE
            /\ st'.error # Null
            /\ st'.data = st.data]_vars

\* a failure handled after a success: the payload of the success is still held
C2_Witness ==
    /\ hook \in {"dashboard", "news"} /\ phase = "mounted"
    /\ Len(settled) = 2
    /\ reqs[settled[1]].status = "ok"
    /\ reqs[LastSettled].status = "failed"
    /\ st.data = Payload(settled[1])
    /\ st.error # Null
    /\ st.loading = FALSE

\* C3: a useDashboardData or useNews instance never has two intervals
\* running; a running interval is the one the current effect run set and has
\* not been cleared; an interval of an earlier run has been cleared exactly
\* once; after unmount every interval has been cleared exactly once.
C3_OneTimer ==
    hook \in {"dashboard", "news"} =>
        /\ Cardinality(ActiveTimers) <= 1
        /\ \A t \in DOMAIN timers :
             /\ timers[t].active <=> (timers[t].eff = effect /\ phase = "mounted")
             /\ timers[t].clears = (IF timers[t].active THEN 0 ELSE 1)

\* unmounted after a key-input change: two intervals were set, both cleared
C3_Witness ==
    /\ hook \in {"dashboard", "news"}
    /\ phase = "unmounted"
    /\ Len(timers) >= 2

\* C4: once the component using useDashboardData has unmounted, no step
\* calls a state setter, changes the state, or issues a request.
C4_NothingAfterUnmount ==
    [][(hook = "dashboard" /\ phase = "unmounted") =>
          /\ st' = st
          /\ lateSets' = lateSets
          /\ Len(reqs') = Len(reqs)]_vars

\* a request in flight at unmount has settled since: loading is still true
\* and nothing is pending
C4_Witness ==
    /\ hook = "dashboard" /\ phase = "unmounted"
    /\ reqs # << >> /\ Pending = {}
    /\ st.loading = TRUE
    /\ lateSets = 0

\* C5: useNews and the polling useDashboardData never call a state setter
\* after the component unmounted.
C5_NoLateSets ==
    hook \in {"news", "polling"} => lateSets = 0

\* C6: in a mounted useDashboardData, when the response that resolved last
\* belongs to the current effect run, data is that response's payload and
\* error is null, whichever request was issued first.
C6_LastResponseWins ==
    (/\ hook = "dashboard" /\ phase = "mounted"
     /\ settled # << >>
     /\ reqs[LastSettled].status = "ok"
     /\ reqs[LastSettled].eff = effect)
    => /\ st.data = Payload(LastSettled)
       /\ st.error = Null

\* two requests of one effect run overlapped and resolved in the reverse of
\* their issue order: the earlier request's payload is held
C6_Witness ==
    /\ hook = "dashboard" /\ phase = "mounted"
    /\ Len(settled) = 2
    /\ settled[2] < settled[1]
    /\ \A i \in 1 .. 2 : reqs[settled[i]].status = "ok" /\ reqs[settled[i]].eff = effect
    /\ st.data = Payload(settled[2])

\* C7: in a mounted useDashboardData or useNews whose key inputs have not
\* changed since its requests were issued (every request belongs to the
\* current effect run), loading is true whenever a request is awaiting its
\* response, also when refresh requests overlap.
C7_LoadingWhilePending ==
    (/\ hook \in {"dashboard", "news"} /\ phase = "mounted"
     /\ \A r \in DOMAIN reqs : reqs[r].eff = effect
     /\ Pending # {})
    => st.loading = TRUE

(***************************************************************************)
(* Properties of the screener, checked under SpecQB.                       *)
(***************************************************************************)
\* an execute request is issued in this step
Executes(r) == r \in qPending' \ qPending /\ r.kind = "execute"

\* C8: for the condition list of every reachable state, addCondition and
\* then removeCondition at the index of the added condition give the list
\* back: same length, same conditions, same order.
C8_AddRemove ==
    removeCondition(addCondition(query), Len(query.operands)) = query

\* a list of two different conditions, built by adding and updating
C8_Witness ==
    /\ Len(query.operands) = 2
    /\ query.operands[1] # query.operands[2]
    /\ query.operands[2] # newCondition

\* C9: no step issues an execute request while the condition list is empty.
C9_NoEmptyExecute ==
    [][\A r \in qPending' : Executes(r) => Len(query.operands) > 0]_vars

\* an execute request is in flight, and the list has been emptied since
C9_Witness ==
    /\ \E r \in qPending : r.kind = "execute"
    /\ query.operands = << >>

\* C10: the query's top-level operator is always AND, and the body of an
\* execute request is { query } with one operand per condition of the list
\* at that moment, in list order.
C10_BodyIsQuery ==
    /\ [](query.operator = "AND")
    /\ [][\A r \in qPending' : Executes(r) =>
            /\ DOMAIN r.body = {"query"}
            /\ r.body.query.operator = "AND"
            /\ Len(r.body.query.operands) = Len(query.operands)
            /\ \A i \in DOMAIN query.operands :
                 /\ r.body.query.operands[i].operator = query.operands[i].operator
                 /\ r.body.query.operands[i].operands = query.operands[i].operands]_vars

\* an execute request in flight whose body holds two different conditions
C10_Witness ==
    \E r \in qPending :
        /\ r.kind = "execute"
        /\ Len(r.body.query.operands) = 2
        /\ r.body.query.operands[1] # r.body.query.operands[2]

\* C11: the step in which a comparison is chosen for the condition at index
\* sets that condition's operator to the chosen one and leaves its field
\* name and operand value as they were; and every condition carries two
\* operand values when its operator is BTWN, one otherwise.
C11_ComparisonChosen ==
    [][\A index \in 0 .. Len(query.operands) - 1 : \A op \in Comparisons :
         (/\ qPhase = "mounted"
          /\ UNCHANGED <<queryType, fields, values, qLoading, qError, results, qPending>>
          /\ query' = onComparisonChange(query, index, op))
         => /\ query'.operands[index + 1].operator = op
            /\ query'.operands[index + 1].operands = query.operands[index + 1].operands
            /\ \A i \in DOMAIN query'.operands :
                 LET c == query'.operands[i] IN
                 IF c.operator = "BTWN"
                 THEN c.operands[2].t = "array"
                 ELSE c.operands[2].t # "array"]_vars

(***************************************************************************)
(* Properties of the AI chat widget, checked under SpecChat.               *)
(***************************************************************************)
IsPrefix(s, t) == Len(s) <= Len(t) /\ SubSeq(t, 1, Len(s)) = s

\* the messages of the user and of the assistant, in order
Spoken(msgs) == SelectSeq(msgs, LAMBDA m : m.sender # "system")

\* the step is a send: a request is issued and the input changes
Sends == chat'.issued = chat.issued + 1 /\ chat'.inputMessage # chat.inputMessage

\* C12: every step of the mounted widget leaves the messages it had in
\* place, unmodified and in order: the list before the step is a prefix of
\* the list after it.
C12_AppendOnly == [][IsPrefix(chat.messages, chat'.messages)]_vars

\* minimized, with a user message, a reply and a system notice behind the
\* greeting
C12_Witness ==
    /\ chat.isMinimized
    /\ Len(chat.messages) >= 4
    /\ \A sender \in {"user", "ai", "system"} :
         \E i \in 2 .. Len(chat.messages) : chat.messages[i].sender = sender

\* C13: a send of a non-blank input while nothing is loading appends one
\* user message with the trimmed text and issues one /ask request with that
\* text and the ticker current at the send; the step in which a request
\* settles appends assistant messages only, behind every message already
\* there (the user message of the request among them), and leaves isLoading
\* false.
C13_SendThenReply ==
    [][/\ Sends =>
            LET message == Trim(chat.inputMessage) IN
            /\ message # << >>
            /\ chat'.messages =
                  Append(chat.messages, [id |-> now, sender |-> "user", content |-> message])
            /\ chat.asks = {}
            /\ chat'.asks = {[id |-> chat'.issued, q |-> message, ticker |-> chat.currentTicker]}
            /\ chat'.isLoading
       /\ \A a \in chat.asks \ chat'.asks :
            LET spoken == Spoken(chat.messages) IN
            /\ spoken[Len(spoken)].sender = "user" => spoken[Len(spoken)].content = a.q
            /\ IsPrefix(chat.messages, chat'.messages)
            /\ Len(chat'.messages) > Len(chat.messages)
            /\ \A i \in Len(chat.messages) + 1 .. Len(chat'.messages) :
                 chat'.messages[i].sender = "ai"
            /\ ~chat'.isLoading]_vars

\* a typed message was sent, the selection went to TCS while the request
\* was pending, and the reply is in the list
C13_Witness ==
    /\ ~chat.isLoading /\ chat.asks = {}
    /\ chat.currentTicker = "TCS.NS"
    /\ \E i, j, k \in DOMAIN chat.messages :
        /\ i < j /\ j < k
        /\ chat.messages[i].sender = "user"
        /\ chat.messages[i].content = <<"Is it a buy?">>
        /\ chat.messages[j].sender = "system"
        /\ chat.messages[j].content = <<"Switched to analyzing ", "TCS">>
        /\ chat.messages[k].sender = "ai"

\* C14: the step that changes the selected ticker appends exactly one
\* message, of sender system and naming the new ticker's label, and leaves
\* the earlier messages, the loading flag, the input and the requests in
\* flight as they were.
C14_TickerSwitch ==
    [][chat'.currentTicker # chat.currentTicker =>
          /\ Len(chat'.messages) = Len(chat.messages) + 1
          /\ IsPrefix(chat.messages, chat'.messages)
          /\ LET m == chat'.messages[Len(chat'.messages)] IN
             /\ m.sender = "system"
             /\ m.content = <<"Switched to analyzing ", tickerLabel(chat'.currentTicker)>>
          /\ chat'.currentTicker \in {tickerOptions[i].value : i \in DOMAIN tickerOptions}
          /\ chat'.isLoading = chat.isLoading
          /\ chat'.asks = chat.asks
          /\ chat'.inputMessage = chat.inputMessage]_vars

\* the ticker was switched while a request for the old ticker is pending
C14_Witness ==
    /\ chat.isLoading
    /\ chat.currentTicker = "TCS.NS"
    /\ \E a \in chat.asks : a.ticker = "RELIANCE.NS"
    /\ chat.messages[Len(chat.messages)].sender = "system"
    /\ chat.messages[Len(chat.messages)].content = <<"Switched to analyzing ", "TCS">>

\* C15: while nothing is loading, clicking a quick question gives the
\* message list and the request that typing its text, the placeholder
\* replaced by the current ticker, and sending it gives.
C15_QuickIsTyped ==
    ~chat.isLoading =>
        \A i \in DOMAIN quickQuestions :
            LET text == Replace(quickQuestions[i].question, "{ticker}", chat.currentTicker)
                clicked == handleQuickQuestion(chat, quickQuestions[i].question)
                typed == sendMessage([chat EXCEPT !.inputMessage = text], now)
            IN  /\ clicked.asks = typed.asks
                /\ clicked.messages = typed.messages

(***************************************************************************)
(* Properties of cleanTicker, checked under SpecTicker.                    *)
(***************************************************************************)
\* s without the quotes and the white space at its two ends
RECURSIVE StripEnds(_)
StripEnds(s) ==
    IF s # << >> /\ Head(s) \in Quotes \cup Whitespace THEN StripEnds(Tail(s))
    ELSE IF s # << >> /\ s[Len(s)] \in Quotes \cup Whitespace
    THEN StripEnds(SubSeq(s, 1, Len(s) - 1))
    ELSE s

\* C16: cleanTicker(cleanTicker(x)) = cleanTicker(x): the second result is
\* the first.
C16_Idempotent ==
    Len(cleaned) >= 2 => cleaned[2] = cleaned[1] /\ cleaned[1] = cleanTicker(ticker)

\* a quoted lower-case ticker with a quote inside, normalised twice
C16_Witness ==
    /\ ticker = <<"\"", "'", "a", "'">>
    /\ cleaned = <<<<"A">>, <<"A">>>>

\* C17: the result of cleanTicker is the input without the quotes and the
\* white space at its two ends, in upper case.
C17_QuotesAndSpace ==
    Len(cleaned) >= 1 => cleaned[1] = toUpperCase(StripEnds(ticker))

(***************************************************************************)
(* Properties of the Dashboard view, checked under SpecView.               *)
(***************************************************************************)
Cards(panel, element) == SelectSeq(panel, LAMBDA x : x.element = element)

\* C18: rendered from a result that is not loading, has no error and has
\* data, the view holds one stock card per stock, one news card for each of
\* the first five news items, in list order, and one entry per signal.
C18_RenderCounts ==
    (/\ dashTree # Null
     /\ ~dashResult.loading /\ dashResult.error = Null /\ dashResult.data # Null)
    => LET data == dashResult.data
           stockCards == Cards(dashTree.stockGrid, "StockCard")
           newsCards == Cards(dashTree.newsPanel, "NewsCard")
           signalEntries == Cards(dashTree.signalsPanel, "signal")
           n == IF Len(data.news) < 5 THEN Len(data.news) ELSE 5
       IN  /\ Len(stockCards) = Len(data.stocks)
           /\ \A i \in DOMAIN stockCards : stockCards[i].stock = data.stocks[i]
           /\ Len(newsCards) = n
           /\ \A i \in 1 .. n : newsCards[i].news = data.news[i]
           /\ Len(signalEntries) = Len(data.signals)

\* two stocks, six news items of which the sixth differs from the first
\* five, one signal: rendered
C18_Witness ==
    /\ dashTree # Null /\ dashTree.view = "main"
    /\ Len(dashResult.data.stocks) = 2
    /\ Len(dashResult.data.news) = 6
    /\ dashResult.data.news[6] # dashResult.data.news[5]
    /\ Len(dashResult.data.signals) = 1

(***************************************************************************)
(* Properties of Dashboard on screen, checked under SpecDash.              *)
(***************************************************************************)
\* what of the chat widget a step keeps when it leaves it rendered with its
\* conversation
ChatKept ==
    /\ chat' # Null
    /\ chat'.messages = chat.messages
    /\ chat'.currentTicker = chat.currentTicker
    /\ chat'.asks = chat.asks

\* C19: with the chat widget on screen and the failure of a request the
\* state of the dashboard hook, no step while Dashboard stays selected takes
\* the chat widget, which consumes nothing of that request, off the screen
\* or resets its conversation.
C19_ChatOutlivesFailure ==
    [][(chat # Null /\ phase' = "mounted" /\ DashboardView(st) = "error")
          => ChatKept]_vars

(***************************************************************************)
(* Recovery from an error, checked under SpecQB.                           *)
(***************************************************************************)
\* the step issues again the fetch of the field and value lists of the
\* query type on screen
RefetchesFields ==
    \E r \in qPending' \ qPending : r.kind = "fields" /\ r.type = queryType

\* C20: while the screener shows the error of its only fetch so far, that of
\* the field and value lists at mount, some control it renders re-runs that
\* fetch: a step issuing it again is enabled.
C20_RetryOffered ==
    (/\ qPhase = "mounted"
     /\ qIssued = 1 /\ qPending = {}
     /\ qShown = [loading |-> qLoading, fields |-> fields]
     /\ qError # Null)
    => ENABLED (NextQB /\ RefetchesFields)

(***************************************************************************)
(* Further properties of the hooks, checked under Spec and SpecRefresh.    *)
(***************************************************************************)
\* C21: the polling useDashboardData with an empty ticker list has issued no
\* request in the current effect run and its state is data = null,
\* loading = false.
C21_PollingEmptyIdle ==
    (hook = "polling" /\ phase = "mounted" /\ inputs.tickers = << >>) =>
        /\ \A r \in DOMAIN reqs : reqs[r].eff # effect
        /\ st.loading = FALSE
        /\ st.data = Null

\* C22: in useDashboardData, the effect run at mount and at every change of
\* the key inputs issues one request when the ticker list is not empty; a
\* step issues at most one request, and only for the inputs of the current
\* effect run of a mounted hook with a non-empty list (so none for earlier
\* inputs, none after unmount); and a hook mounted with a non-empty list
\* goes on issuing requests, up to MaxReq of them, until it is unmounted or
\* its list becomes empty.
C22_RefreshWhileMounted ==
    /\ [][/\ (effect' # effect /\ inputs'.tickers # << >>)
                => Len(reqs') = Len(reqs) + 1
          /\ Len(reqs') # Len(reqs)
                => /\ Len(reqs') = Len(reqs) + 1
                   /\ reqs'[Len(reqs')].eff = effect'
                   /\ reqs'[Len(reqs')].status = "pending"
                   /\ phase' = "mounted"
                   /\ inputs'.tickers # << >>]_vars
    /\ (phase = "mounted" /\ inputs.tickers # << >>)
          ~> (Len(reqs) = MaxReq \/ phase = "unmounted" \/ inputs.tickers = << >>)

\* mounted, the inputs changed, and the interval of the new inputs fired:
\* two requests of the current effect run after one of the first
C22_Witness ==
    /\ phase = "mounted" /\ effect = 2
    /\ Len(reqs) = 3
    /\ reqs[1].eff = 1 /\ reqs[2].eff = 2 /\ reqs[3].eff = 2

\* C24: in useDashboardData, the step in which a request of an earlier
\* effect run (issued for the inputs before a change) settles, resolved or
\* failed, leaves data, error and loading as they were.
C24_StaleResponseIgnored ==
    [][\A r \in DOMAIN reqs :
         (/\ hook = "dashboard"
          /\ reqs[r].eff # effect
          /\ (Settles(r, "ok") \/ Settles(r, "failed")))
         => st' = st]_vars

\* the ticker list changed while a request was pending; that request has
\* resolved and the one for the new list is still pending
C24_Witness ==
    /\ hook = "dashboard" /\ phase = "mounted" /\ effect = 2
    /\ Len(reqs) >= 2
    /\ reqs[1].eff = 1 /\ reqs[1].status = "ok"
    /\ reqs[2].eff = 2 /\ reqs[2].status = "pending"
    /\ st.data = Null /\ st.loading = TRUE

(***************************************************************************)
(* Properties of the magnitude formatters, checked under SpecFormat.       *)
(***************************************************************************)
\* the ladder: T from 10^12, B from 10^9, M from 10^6, K from 10^3, the
\* value itself below, two decimals throughout
Ladder(v) ==
    IF AtLeast(v, 12) THEN toFixed(v, 12, 2) \o <<"T">>
    ELSE IF AtLeast(v, 9) THEN toFixed(v, 9, 2) \o <<"B">>
    ELSE IF AtLeast(v, 6) THEN toFixed(v, 6, 2) \o <<"M">>
    ELSE IF AtLeast(v, 3) THEN toFixed(v, 3, 2) \o <<"K">>
    ELSE toFixed(v, 0, 2)

\* the text without a currency sign in front
Unsigned(text) == IF text # << >> /\ Head(text) = "$" THEN Tail(text) ELSE text

\* C23: what a magnitude formatter returns for a number is, a leading
\* currency sign apart, the text of the ladder.
C23_SameLadder ==
    (formatted # << >> /\ amount # Absent) => Unsigned(formatted) = Ladder(amount)

(***************************************************************************)
(* Further properties of Dashboard on screen, checked under SpecDash.      *)
(***************************************************************************)
\* C25: while Dashboard stays selected and the hook holds no error, no step
\* takes the chat widget off the screen or resets its conversation: neither
\* the periodic refresh nor the render that follows it.
C25_ChatSurvivesRefresh ==
    [][(chat # Null /\ phase' = "mounted" /\ ~Truthy(st.error) /\ ~Truthy(st'.error))
          => ChatKept]_vars

(***************************************************************************)
(* Properties of DomainPanel, checked under SpecDomain.                    *)
(***************************************************************************)
\* C26: when no request of the panel is outstanding, every response has been
\* rendered and the panel shows its list (not loading, no error), the list
\* is the response for the type on screen, and the cards are those of that
\* response which the search query selects.
C26_ListOfCurrentType ==
    (/\ domain.phase = "mounted"
     /\ domain.pending = {}
     /\ ~domain.filterDue /\ ~domain.domainsSet /\ StateOf(domain) = domain.shown
     /\ DomainView(domain.shown) = "main")
    => /\ domain.shown.domains = DomainsOf(domain.type)
       /\ domain.shown.filteredDomains
            = filterDomains(DomainsOf(domain.type), domain.shown.searchQuery)

(***************************************************************************)
(* Further properties of the chat widget, checked under SpecChat.          *)
(***************************************************************************)
\* C27: at most one /ask request is outstanding, and isLoading is true
\* exactly while one is; with the input, Send and the quick questions
\* disabled while isLoading, no request is issued while one is outstanding.
C27_OneAskOutstanding ==
    /\ Cardinality(chat.asks) <= 1
    /\ chat.isLoading <=> chat.asks # {}
    /\ ENABLED (ChatSend \/ ChatQuickQuestion) => chat.asks = {}

\* a second question is being asked after the first was answered
C27_Witness ==
    /\ chat.isLoading
    /\ \E a \in chat.asks : a.id = 2
    /\ \E i \in DOMAIN chat.messages : chat.messages[i].sender = "ai" /\ i > 1

\* C30: the messages of the list have pairwise distinct ids, also when the
\* answer and its market-context message are appended in the same
\* millisecond.
C30_DistinctIds ==
    \A i, j \in DOMAIN chat.messages :
        chat.messages[i].id = chat.messages[j].id => i = j

(***************************************************************************)
(* Further properties of the screener, checked under SpecQB.               *)
(***************************************************************************)
\* C28: while an execute request is outstanding Search is disabled, so at
\* most one execute request is outstanding, also when the query type is
\* changed during the execution.
C28_OneExecuteOutstanding ==
    LET executing == {r \in qPending : r.kind = "execute"} IN
    /\ Cardinality(executing) <= 1
    /\ executing # {} => SearchDisabled

(***************************************************************************)
(* Properties of the three detail panels, checked under SpecDetail.        *)
(***************************************************************************)
\* C29: a fetch with a blank ticker issues no request and changes no state;
\* at most one request is outstanding, a request being issued only with a
\* ticker that is not blank and none outstanding; the data and the error
\* are never both non-null.
C29_DetailPanel ==
    /\ [](/\ Trim(detail.ticker) = << >> => fetchDetail(detail) = detail
          /\ Cardinality(detail.pending) <= 1
          /\ ~(detail.data # Null /\ detail.error # Null))
    /\ [][detail'.issued # detail.issued
            => /\ Trim(detail.ticker) # << >>
               /\ detail.pending = {}
               /\ detail'.error = Null]_vars
    /\ [][\A r \in detail.pending \ detail'.pending :
            \/ detail'.data # Null /\ detail'.error = detail.error
            \/ detail'.data = Null /\ detail'.error # Null]_vars

\* a success, then a failure, then the ticker blanked: Retry is on screen
\* and calls the fetch with a blank ticker
C29_Witness ==
    /\ detail.issued = 2
    /\ detail.pending = {}
    /\ detail.data = Null
    /\ RetryShown(detail)
    /\ Trim(detail.ticker) = << >>
    /\ ENABLED DetailRetry

====
